---- MODULE Spec2Model ----
(***************************************************************************)
(* Model of clients/python/vzlogger/logger.py: the process-wide socket     *)
(* client `_client`, connect()/disconnect() and the disconnect handshake,  *)
(* the Logger objects with their configuration and `_log`, and the         *)
(* `_loggers` registry behind get_logger().                                *)
(*                                                                         *)
(* Caller threads execute the functions one global read or write at a      *)
(* time (the granularity at which CPython threads interleave); the         *)
(* transport (socketio) and the collector are the environment.             *)
(***************************************************************************)
EXTENDS Integers, Sequences, FiniteSets, TLC

\* ---------------------------------------------------------------- bounds
\* socketio.Client objects created in a run (connect() calls reaching line 39)
MaxChan == 2
\* log calls (debug/info/warn/error) issued in a run
MaxLogs == 1
\* configuration calls (level/enabled/tags/stdout/stderr) issued in a run
MaxConf == 1

\* ------------------------------------------------------- program constants
DEBUG == 1
INFO == 2
WARN == 3
ERROR == 4

Levels == {DEBUG, INFO, WARN, ERROR}

_level_to_name(l) ==
  CASE l = DEBUG -> "debug"
    [] l = INFO -> "info"
    [] l = WARN -> "warn"
    [] l = ERROR -> "error"

\* `None`, as the value of `_client` and of an absent registry entry
None == 0

\* The caller threads: the orchestrating thread, and a second one for the
\* specifications that let two threads use the module concurrently.
MainThread == {"main"}
AllThreads == {"main", "worker"}

\* ------------------------------------------------------------------ inputs
\* Names handed to get_logger: any value; str() gives the registry key.
NameInputs ==
  { [kind |-> "int", val |-> "1"],
    [kind |-> "str", val |-> "1"],
    [kind |-> "str", val |-> "a"] }

\* str(name), line 180: an int and the string of its digits share one form.
Str(n) == n.val

\* get_logger('') is a call like any other: the names above and the empty one.
EmptyName == [kind |-> "str", val |-> ""]
AllNames == NameInputs \cup {EmptyName}

CanonNames == { Str(n) : n \in AllNames }

\* Python sequences remember whether they are a list or a tuple.
PyList(items) == [kind |-> "list", items |-> items]
PyTuple(items) == [kind |-> "tuple", items |-> items]

\* Values handed to Logger.level(): the four levels, one below, one above.
LevelInputs == Levels \cup {DEBUG - 1, ERROR + 1}

\* *tags of Logger.tags(): always packed into a tuple
TagArgs == { <<>>, <<"a", "b">> }
\* *objects, msg= and tags= of a log method: one object with the defaults
\* msg="" and tags=[], the same with a msg, several objects with a list of
\* tags, no object with a tuple of tags
LogArgs ==
  { [objects |-> <<"x">>, msg |-> "", tags |-> PyList(<<>>)],
    [objects |-> <<"x">>, msg |-> "m", tags |-> PyList(<<>>)],
    [objects |-> <<"x", "y">>, msg |-> "", tags |-> PyList(<<"a">>)],
    [objects |-> <<>>, msg |-> "", tags |-> PyTuple(<<"a">>)] }

\* ----------------------------------------------------------------- state
VARIABLES
  _client,   \* the module global: None or the index of a Client in chans
  chans,     \* the socketio.Client objects created so far, in creation order
  _loggers,  \* the registry: canonical name -> index in heap, None if absent
  heap,      \* the Logger objects created so far
  pc,        \* per thread: where it is in the function it executes
  frame,     \* per thread: the arguments and locals of the running call
  ret,       \* per thread: how its last call ended (value or exception)
  inScope,   \* per thread: inside the body of `with connect(...)`
  stdout,    \* lines written to sys.stdout
  stderr,    \* lines written to sys.stderr
  nlogs,     \* log calls issued
  nconf      \* configuration calls issued

vars == <<_client, chans, _loggers, heap, pc, frame, ret, inScope,
          stdout, stderr, nlogs, nconf>>

session == <<_client, chans>>
registry == <<_loggers, heap>>
streams == <<stdout, stderr>>
counters == <<nlogs, nconf>>

\* ------------------------------------------------------------ the channel
\* A socketio.Client: its transport state, the handler registered for
\* ServerApproveDisconnect (None, or the Client whose disconnect it is bound
\* to), the signals whose emit() returned normally, and whether the
\* collector's approval has arrived.
\* A wire entry also records whether the transport was connected when it took
\* the signal (sent) or discarded it without an error.
Client ==
  [state |-> "new", handler |-> None, wire |-> <<>>, acked |-> FALSE]

Channels == 1..Len(chans)

Emitted(c, sig) == \E i \in 1..Len(chans[c].wire) : chans[c].wire[i].sig = sig

Sent(c, sig) ==
  \E i \in 1..Len(chans[c].wire) :
     chans[c].wire[i].sig = sig /\ chans[c].wire[i].sent

Count(c, sig) ==
  Cardinality({ i \in 1..Len(chans[c].wire) : chans[c].wire[i].sig = sig })

\* ------------------------------------------------------------- the frames
NoRecord ==
  [loggerName |-> "", level |-> "", tags |-> <<>>, columnNumber |-> -1,
   view |-> [kind |-> "none", items |-> <<>>]]

NoFrame ==
  [op |-> "none", lg |-> None, level |-> 0, objects |-> <<>>, msg |-> "",
   tags |-> PyList(<<>>), name |-> "", record |-> NoRecord,
   target |-> None, scoped |-> FALSE]

NoRet == [op |-> "none", status |-> "none", val |-> None]

\* The running call of thread t returns val / raises exc to its caller.
Return(t, val) ==
  /\ pc' = [pc EXCEPT ![t] = "idle"]
  /\ ret' = [ret EXCEPT ![t] = [op |-> frame[t].op, status |-> "ok", val |-> val]]
  /\ frame' = [frame EXCEPT ![t] = NoFrame]

Raise(t, exc) ==
  /\ pc' = [pc EXCEPT ![t] = "idle"]
  /\ ret' = [ret EXCEPT ![t] = [op |-> frame[t].op, status |-> exc, val |-> None]]
  /\ frame' = [frame EXCEPT ![t] = NoFrame]

Goto(t, label) ==
  /\ pc' = [pc EXCEPT ![t] = label]
  /\ UNCHANGED <<frame, ret>>

Init ==
  /\ _client = None
  /\ chans = <<>>
  /\ _loggers = [s \in CanonNames |-> None]
  /\ heap = <<>>
  /\ pc = [t \in AllThreads |-> "idle"]
  /\ frame = [t \in AllThreads |-> NoFrame]
  /\ ret = [t \in AllThreads |-> NoRet]
  /\ inScope = [t \in AllThreads |-> FALSE]
  /\ stdout = <<>>
  /\ stderr = <<>>
  /\ nlogs = 0
  /\ nconf = 0

\* ---------------------------------------------------------- the transport
\* Client.emit(sig, namespace='/program') on Client c returns normally: the
\* signal is handed to the transport, which sends it if it is connected.
EmitOk(c, sig) ==
  chans' = [chans EXCEPT ![c].wire =
              Append(@, [sig |-> sig, sent |-> chans[c].state = "connected"])]

\* Client.emit can raise only when the namespace is not connected.
EmitMayRaise(c) == chans[c].state # "connected"

\* The Client's own disconnect(): closes a connected transport.
ClientDisconnect(ch, c) ==
  IF c # None /\ ch[c].state = "connected"
    THEN [ch EXCEPT ![c].state = "closed"]
    ELSE ch

\* ------------------------------------------------ connect / disconnect
\* Calls of connect() that have not yet created their Client (line 39).
PendingClients ==
  Cardinality({ t \in AllThreads :
                  frame[t].op = "connect" /\ pc[t] \in {"disc_emit", "disc_clear", "new_client"} })

\* disconnect(), line 57, entered for `op`: the body of the function when
\* called directly, line 37 of Connection.__init__, line 48 of __exit__.
DisconnectEnter(t, op, scoped) ==
  /\ pc[t] = "idle"
  /\ IF _client # None
        THEN /\ pc' = [pc EXCEPT ![t] = "disc_emit"]
             /\ frame' = [frame EXCEPT ![t] = [NoFrame EXCEPT !.op = op, !.scoped = scoped]]
             /\ UNCHANGED ret
        ELSE IF op = "connect"
          THEN /\ pc' = [pc EXCEPT ![t] = "new_client"]
               /\ frame' = [frame EXCEPT ![t] = [NoFrame EXCEPT !.op = op, !.scoped = scoped]]
               /\ UNCHANGED ret
          ELSE /\ ret' = [ret EXCEPT ![t] = [op |-> op, status |-> "ok", val |-> None]]
               /\ UNCHANGED <<pc, frame>>

\* disconnect() without the test of line 57
DisconnectUnguarded(t) ==
  /\ pc[t] = "idle"
  /\ pc' = [pc EXCEPT ![t] = "disc_emit"]
  /\ frame' = [frame EXCEPT ![t] = [NoFrame EXCEPT !.op = "disconnect"]]
  /\ UNCHANGED <<ret, session, registry, inScope, streams, counters>>

\* disconnect() called by the program.
Disconnect(t) ==
  /\ DisconnectEnter(t, "disconnect", FALSE)
  /\ UNCHANGED <<session, registry, inScope, streams, counters>>

\* connect() without the disconnect() of line 37
ConnectNoTeardown(t, scoped) ==
  /\ Len(chans) + PendingClients < MaxChan
  /\ scoped => ~inScope[t]
  /\ pc[t] = "idle"
  /\ pc' = [pc EXCEPT ![t] = "new_client"]
  /\ frame' = [frame EXCEPT ![t] = [NoFrame EXCEPT !.op = "connect", !.scoped = scoped]]
  /\ UNCHANGED <<ret, session, registry, inScope, streams, counters>>

\* connect(url), optionally as `with connect(url):`; line 37 runs first.
Connect(t, scoped) ==
  /\ Len(chans) + PendingClients < MaxChan
  /\ scoped => ~inScope[t]
  /\ DisconnectEnter(t, "connect", scoped)
  /\ UNCHANGED <<session, registry, inScope, streams, counters>>

\* leaving the with-body without the disconnect() of line 48
ExitScopeNoDisconnect(t) ==
  /\ inScope[t]
  /\ pc[t] = "idle"
  /\ inScope' = [inScope EXCEPT ![t] = FALSE]
  /\ ret' = [ret EXCEPT ![t] = [op |-> "exit", status |-> "ok", val |-> None]]
  /\ UNCHANGED <<pc, frame, session, registry, streams, counters>>

\* Connection.__exit__, lines 47-48: the with-body is left, normally or by an
\* exception of the call that just ended.
ExitScope(t) ==
  /\ inScope[t]
  /\ inScope' = [inScope EXCEPT ![t] = FALSE]
  /\ DisconnectEnter(t, "exit", FALSE)
  /\ UNCHANGED <<session, registry, streams, counters>>

\* line 64: `_client.emit('ProgramRequestDisconnect', namespace='/program')`.
\* `_client` is read again: it is None if another thread cleared it.
DisconnectEmit(t) ==
  /\ pc[t] = "disc_emit"
  /\ IF _client = None
        THEN Raise(t, "AttributeError") /\ UNCHANGED chans
        ELSE \/ EmitOk(_client, "ProgramRequestDisconnect") /\ Goto(t, "disc_clear")
             \/ /\ EmitMayRaise(_client)
                /\ Raise(t, "BadNamespaceError")
                /\ UNCHANGED chans
  /\ UNCHANGED <<_client, registry, inScope, streams, counters>>

\* disconnect() closing the channel itself instead of waiting for the approval
DisconnectClearClosing(t) ==
  /\ pc[t] = "disc_clear"
  /\ chans' = ClientDisconnect(chans, _client)
  /\ _client' = None
  /\ IF frame[t].op = "connect" THEN Goto(t, "new_client") ELSE Return(t, None)
  /\ UNCHANGED <<registry, inScope, streams, counters>>

\* line 65: `_client = None`; disconnect() returns.
DisconnectClear(t) ==
  /\ pc[t] = "disc_clear"
  /\ _client' = None
  /\ IF frame[t].op = "connect" THEN Goto(t, "new_client") ELSE Return(t, None)
  /\ UNCHANGED <<chans, registry, inScope, streams, counters>>

\* line 39: `_client = socketio.Client()`.
ConnectNew(t) ==
  /\ pc[t] = "new_client"
  /\ chans' = Append(chans, Client)
  /\ _client' = Len(chans) + 1
  /\ Goto(t, "do_connect")
  /\ UNCHANGED <<registry, inScope, streams, counters>>

\* line 40: `_client.connect(url, namespaces=['/program'])`: the collector
\* accepts or refuses (ConnectionError); a Client that is already connected
\* rejects the call (ValueError).
ConnectOpen(t) ==
  /\ pc[t] = "do_connect"
  /\ IF _client = None
        THEN Raise(t, "AttributeError") /\ UNCHANGED chans
        ELSE IF chans[_client].state = "connected"
          THEN Raise(t, "ValueError") /\ UNCHANGED chans
          ELSE \/ /\ chans' = [chans EXCEPT ![_client].state = "connected"]
                  /\ Goto(t, "reg_on")
               \/ /\ chans' = [chans EXCEPT ![_client].state = "refused"]
                  /\ Raise(t, "ConnectionError")
  /\ UNCHANGED <<_client, registry, inScope, streams, counters>>

\* line 42, first read of `_client`: the Client whose `on` is called.
ConnectOn(t) ==
  /\ pc[t] = "reg_on"
  /\ IF _client = None
        THEN Raise(t, "AttributeError")
        ELSE /\ frame' = [frame EXCEPT ![t].target = _client]
             /\ pc' = [pc EXCEPT ![t] = "reg_bind"]
             /\ UNCHANGED ret
  /\ UNCHANGED <<session, registry, inScope, streams, counters>>

\* line 42, second read: `_client.disconnect` is bound and registered as the
\* ServerApproveDisconnect handler; Connection.__init__ returns.
ConnectBind(t) ==
  /\ pc[t] = "reg_bind"
  /\ IF _client = None
        THEN Raise(t, "AttributeError") /\ UNCHANGED <<chans, inScope>>
        ELSE /\ chans' = [chans EXCEPT ![frame[t].target].handler = _client]
             /\ inScope' = [inScope EXCEPT ![t] = @ \/ frame[t].scoped]
             /\ Return(t, None)
  /\ UNCHANGED <<_client, registry, streams, counters>>

\* ------------------------------------------------------- the environment
\* The collector received ProgramRequestDisconnect on channel c and answers
\* ServerApproveDisconnect; the transport's thread runs the handler
\* registered on c, if any (line 42).
\* the approval handled by closing whatever Client is the session at that time
ServerApproveClosesCurrent(c) ==
  /\ chans[c].state = "connected"
  /\ Sent(c, "ProgramRequestDisconnect")
  /\ ~chans[c].acked
  /\ chans' = ClientDisconnect([chans EXCEPT ![c].acked = TRUE], _client)
  /\ UNCHANGED <<_client, registry, pc, frame, ret, inScope, streams, counters>>

ServerApproveDisconnect(c) ==
  /\ chans[c].state = "connected"
  /\ Sent(c, "ProgramRequestDisconnect")
  /\ ~chans[c].acked
  /\ chans' = ClientDisconnect([chans EXCEPT ![c].acked = TRUE], chans[c].handler)
  /\ UNCHANGED <<_client, registry, pc, frame, ret, inScope, streams, counters>>

\* The transport loses the connection.
Drop(c) ==
  /\ chans[c].state = "connected"
  /\ chans' = [chans EXCEPT ![c].state = "dropped"]
  /\ UNCHANGED <<_client, registry, pc, frame, ret, inScope, streams, counters>>

\* ------------------------------------------------------------ the registry
\* Logger.__init__, lines 77-83
Logger(name) ==
  [name |-> name, level |-> INFO, enabled |-> TRUE, tags |-> PyList(<<>>),
   stdout |-> FALSE, stderr |-> FALSE]

Loggers == 1..Len(heap)

\* get_logger() without the membership test of line 181
GetLoggerAlwaysNew(t, n) ==
  /\ pc[t] = "idle"
  /\ Len(heap) < Cardinality(NameInputs)
  /\ frame' = [frame EXCEPT ![t] = [NoFrame EXCEPT !.op = "get_logger", !.name = Str(n)]]
  /\ pc' = [pc EXCEPT ![t] = "gl_create"]
  /\ UNCHANGED <<session, registry, ret, inScope, streams, counters>>

\* get_logger(name), lines 180-181: `name = str(name)`, `name not in _loggers`
GetLogger(t, n) ==
  /\ pc[t] = "idle"
  /\ frame' = [frame EXCEPT ![t] = [NoFrame EXCEPT !.op = "get_logger", !.name = Str(n)]]
  /\ pc' = [pc EXCEPT ![t] =
              IF _loggers[Str(n)] = None THEN "gl_create" ELSE "gl_return"]
  /\ UNCHANGED <<session, registry, ret, inScope, streams, counters>>

\* line 182: `_loggers[name] = Logger(name)`
GetLoggerCreate(t) ==
  /\ pc[t] = "gl_create"
  /\ heap' = Append(heap, Logger(frame[t].name))
  /\ _loggers' = [_loggers EXCEPT ![frame[t].name] = Len(heap) + 1]
  /\ Goto(t, "gl_return")
  /\ UNCHANGED <<session, inScope, streams, counters>>

\* lines 183-184: `logger = _loggers[name]`, `return logger`
GetLoggerReturn(t) ==
  /\ pc[t] = "gl_return"
  /\ Return(t, _loggers[frame[t].name])
  /\ UNCHANGED <<session, registry, inScope, streams, counters>>

\* ------------------------------------------------------ configuration
\* Every setter stores its argument and returns the Logger.
Configure(t, lg, op, new) ==
  /\ pc[t] = "idle"
  /\ nconf < MaxConf
  /\ nconf' = nconf + 1
  /\ heap' = [heap EXCEPT ![lg] = new]
  /\ ret' = [ret EXCEPT ![t] = [op |-> op, status |-> "ok", val |-> lg]]
  /\ UNCHANGED <<session, _loggers, pc, frame, inScope, streams, nlogs>>

\* Logger.level, lines 89-92
SetLevel(t, lg, l) == Configure(t, lg, "level", [heap[lg] EXCEPT !.level = l])

\* Logger.enabled, lines 94-97
SetEnabled(t, lg, b) == Configure(t, lg, "enabled", [heap[lg] EXCEPT !.enabled = b])

\* Logger.tags, lines 99-102: `*tags` is a tuple, stored as it is
SetTags(t, lg, ts) == Configure(t, lg, "tags", [heap[lg] EXCEPT !.tags = PyTuple(ts)])

\* Logger.stdout, lines 104-107
SetStdout(t, lg, b) == Configure(t, lg, "stdout", [heap[lg] EXCEPT !.stdout = b])

\* Logger.stderr, lines 109-112
SetStderr(t, lg, b) == Configure(t, lg, "stderr", [heap[lg] EXCEPT !.stderr = b])

\* ------------------------------------------------------------ logging
\* print(*objects): the objects joined by single spaces, on one line
RECURSIVE Join(_)
Join(objects) ==
  IF objects = <<>> THEN ""
  ELSE IF Len(objects) = 1 THEN objects[1]
  ELSE objects[1] \o " " \o Join(Tail(objects))

\* vizstack.Flow(*objects) and vizstack.assemble(value): opaque to the module
Flow(objects) == [kind |-> "flow", items |-> objects]
Single(object) == [kind |-> "object", items |-> <<object>>]
assemble(value) == [kind |-> "view", root |-> value]

\* Python's `+` on sequences is defined for two lists or two tuples only.
CanAdd(a, b) == a.kind = b.kind
Add(a, b) == [kind |-> a.kind, items |-> a.items \o b.items]

\* json.dumps: lists and tuples both become JSON arrays.
Dumps(d) == [d EXCEPT !.tags = @.items]

\* a record whose view is a Flow whatever the number of objects
RecordFlowAlways(lg, level, objects, tags) ==
  [loggerName |-> heap[lg].name,
   level |-> _level_to_name(level),
   tags |-> Add(heap[lg].tags, tags),
   columnNumber |-> -1,
   view |-> assemble(Flow(objects))]

\* The dict of lines 156-166 (timestamp and the caller's location, which
\* come from the clock and the interpreter's stack, are left out).
Record(lg, level, objects, tags) ==
  [loggerName |-> heap[lg].name,
   level |-> _level_to_name(level),
   tags |-> Add(heap[lg].tags, tags),
   columnNumber |-> -1,
   view |-> assemble(IF Len(objects) = 1 THEN Single(objects[1]) ELSE Flow(objects))]

\* a filter that looks at the level only
FilteredLevelOnly(lg, level) == level < heap[lg].level

\* The filter of lines 136-137.
Filtered(lg, level) == ~heap[lg].enabled \/ level < heap[lg].level

\* an echo that ignores the logger's setting
EchoAlways(stream, on, objects) == Append(stream, Join(objects))

\* print(*objects, file=stream) when the logger echoes to the stream
Echo(stream, on, objects) == IF on THEN Append(stream, Join(objects)) ELSE stream

\* debug/info/warn/error, lines 118-128, into _log, lines 134-154: the filter
\* returns at once; else the caller's location is read and the objects are
\* echoed to stdout and stderr.
Log(t, lg, level, objects, msg, tags) ==
  /\ pc[t] = "idle"
  /\ nlogs < MaxLogs
  /\ nlogs' = nlogs + 1
  /\ IF Filtered(lg, level)
        THEN /\ ret' = [ret EXCEPT ![t] = [op |-> "log", status |-> "ok", val |-> None]]
             /\ UNCHANGED <<pc, frame, streams>>
        ELSE /\ stdout' = Echo(stdout, heap[lg].stdout, objects)
             /\ stderr' = Echo(stderr, heap[lg].stderr, objects)
             /\ frame' = [frame EXCEPT ![t] =
                            [NoFrame EXCEPT !.op = "log", !.lg = lg, !.level = level,
                                            !.objects = objects, !.msg = msg,
                                            !.tags = tags]]
             /\ pc' = [pc EXCEPT ![t] = "log_build"]
             /\ UNCHANGED ret
  /\ UNCHANGED <<session, registry, inScope, nconf>>

\* lines 156-166: the record is built and serialized; `self._tags + tags`
\* raises TypeError when one is a list and the other a tuple.
LogBuild(t) ==
  /\ pc[t] = "log_build"
  /\ IF CanAdd(heap[frame[t].lg].tags, frame[t].tags)
        THEN /\ frame' = [frame EXCEPT ![t].record =
                            Dumps(Record(frame[t].lg, frame[t].level,
                                         frame[t].objects, frame[t].tags))]
             /\ pc' = [pc EXCEPT ![t] = "log_check"]
             /\ UNCHANGED ret
        ELSE Raise(t, "TypeError")
  /\ UNCHANGED <<session, registry, inScope, streams, counters>>

\* line 172: `if _client is not None:`
LogCheck(t) ==
  /\ pc[t] = "log_check"
  /\ IF _client # None THEN Goto(t, "log_emit") ELSE Return(t, None)
  /\ UNCHANGED <<session, registry, inScope, streams, counters>>

\* line 173: `_client.emit('ProgramToServer', record, namespace='/program')`;
\* `_client` is read again.
LogEmit(t) ==
  /\ pc[t] = "log_emit"
  /\ IF _client = None
        THEN Raise(t, "AttributeError") /\ UNCHANGED chans
        ELSE \/ EmitOk(_client, "ProgramToServer") /\ Return(t, None)
             \/ /\ EmitMayRaise(_client)
                /\ Raise(t, "BadNamespaceError")
                /\ UNCHANGED chans
  /\ UNCHANGED <<_client, registry, inScope, streams, counters>>

\* ------------------------------------------------------ specifications
\* The session: connect(), disconnect(), leaving a `with connect()` body.
SessionCall(t) ==
  \/ \E scoped \in BOOLEAN : Connect(t, scoped)
  \/ Disconnect(t)
  \/ ExitScope(t)

SessionStep(t) ==
  \/ DisconnectEmit(t)
  \/ DisconnectClear(t)
  \/ ConnectNew(t)
  \/ ConnectOpen(t)
  \/ ConnectOn(t)
  \/ ConnectBind(t)

\* The registry: get_logger(name).
RegistryCall(t) == \E n \in NameInputs : GetLogger(t, n)

RegistryStep(t) ==
  \/ GetLoggerCreate(t)
  \/ GetLoggerReturn(t)

\* Logging: debug/info/warn/error on any Logger created so far.
LogCall(t) ==
  \E lg \in Loggers, l \in Levels, a \in LogArgs : Log(t, lg, l, a.objects, a.msg, a.tags)

LogStep(t) ==
  \/ LogBuild(t)
  \/ LogCheck(t)
  \/ LogEmit(t)

\* The configuration calls.
Config(t) ==
  \E lg \in Loggers :
    \/ \E l \in Levels : SetLevel(t, lg, l)
    \/ \E b \in BOOLEAN : SetEnabled(t, lg, b)
    \/ \E ts \in TagArgs : SetTags(t, lg, ts)
    \/ \E b \in BOOLEAN : SetStdout(t, lg, b)
    \/ \E b \in BOOLEAN : SetStderr(t, lg, b)

Environment ==
  \E c \in Channels : ServerApproveDisconnect(c) \/ Drop(c)

\* Configuration with any argument: a level that is none of the four, an
\* empty logger name.
ConfigLevelAny(t) ==
  \E lg \in Loggers : \E l \in LevelInputs \ Levels : SetLevel(t, lg, l)

RegistryCallAny(t) == \E n \in AllNames : GetLogger(t, n)

\* The whole module, used by one orchestrating thread as it assumes.
Next ==
  \/ \E t \in MainThread :
        \/ SessionCall(t) \/ SessionStep(t)
        \/ RegistryCall(t) \/ RegistryStep(t)
        \/ LogCall(t) \/ LogStep(t)
        \/ Config(t)
  \/ Environment

Spec == Init /\ [][Next]_vars

\* The session alone: one thread connecting and disconnecting, the collector
\* and the transport.
NextSession ==
  \/ \E t \in MainThread : SessionCall(t) \/ SessionStep(t)
  \/ Environment

SpecSession == Init /\ [][NextSession]_vars

\* The session and logging through loggers in their initial configuration.
NextLogging ==
  \/ \E t \in MainThread :
        \/ SessionCall(t) \/ SessionStep(t)
        \/ RegistryCall(t) \/ RegistryStep(t)
        \/ LogCall(t) \/ LogStep(t)
  \/ Environment

SpecLogging == Init /\ [][NextLogging]_vars

\* Two threads: one runs the session, the other obtains loggers and logs.
NextMT ==
  \/ \E t \in MainThread : SessionCall(t) \/ SessionStep(t)
  \/ \E t \in AllThreads \ MainThread :
        \/ RegistryCall(t) \/ RegistryStep(t)
        \/ LogCall(t) \/ LogStep(t)
  \/ Environment

SpecMT == Init /\ [][NextMT]_vars

\* Obtaining and configuring loggers, with any name and any level value.
NextConfig ==
  \E t \in MainThread :
     \/ RegistryCallAny(t) \/ RegistryStep(t)
     \/ Config(t)
     \/ ConfigLevelAny(t)

SpecConfig == Init /\ [][NextConfig]_vars

\* The session with a collector that answers every request it receives and
\* a transport that keeps every connection up until the Client closes it.
NextHandshake ==
  \/ \E t \in MainThread : SessionCall(t) \/ SessionStep(t)
  \/ \E c \in Channels : ServerApproveDisconnect(c)

SpecHandshake ==
  /\ Init
  /\ [][NextHandshake]_vars
  /\ \A c \in 1..MaxChan : WF_vars(c \in Channels /\ ServerApproveDisconnect(c))

\* Two threads that both connect and disconnect.
NextSessionMT ==
  \/ \E t \in AllThreads : SessionCall(t) \/ SessionStep(t)
  \/ Environment

SpecSessionMT == Init /\ [][NextSessionMT]_vars

\* Two threads that both obtain loggers and configure them.
NextRegistryMT ==
  \E t \in AllThreads :
     \/ RegistryCall(t) \/ RegistryStep(t)
     \/ Config(t)

SpecRegistryMT == Init /\ [][NextRegistryMT]_vars

\* ================================================================ claims
PRD == "ProgramRequestDisconnect"
PTS == "ProgramToServer"

\* The session is Connected: the reference holds a Client whose transport is up.
Connected == _client # None /\ chans[_client].state = "connected"

\* C1: a channel is physically closed only after ServerApproveDisconnect has
\* been received on it, and no step of the program (disconnect(), the
\* teardown inside connect(), leaving a with-body) closes a channel: only the
\* handler run for the collector's approval does.
C1_CloseOnlyAfterAck ==
  /\ [](\A c \in Channels : chans[c].state = "closed" => chans[c].acked)
  /\ [][\A c \in Channels :
          (chans[c].state # "closed" /\ chans'[c].state = "closed")
            => (pc' = pc /\ ~chans[c].acked /\ chans'[c].acked
                /\ Sent(c, PRD))]_vars

\* C1 witness: a session was connected, disconnect() was requested on it and
\* the channel was closed on the collector's approval.
C1_Witness ==
  \E c \in Channels :
     chans[c].state = "closed" /\ chans[c].acked /\ Emitted(c, PRD) /\ _client = None

\* C3: disconnect() with no active session, or straight after a disconnect()
\* that returned, emits nothing, raises nothing and changes no state.
C3_DisconnectIdempotent ==
  [][\A t \in MainThread :
       (Disconnect(t)
          /\ (_client = None \/ (ret[t].op = "disconnect" /\ ret[t].status = "ok")))
        => /\ UNCHANGED <<session, registry, streams, pc, frame, inScope>>
           /\ ret'[t] = [op |-> "disconnect", status |-> "ok", val |-> None]]_vars

\* C3 witness: a disconnect() has emitted its request and returned; the next
\* disconnect() finds no session.
C3_Witness ==
  \E t \in MainThread, c \in Channels :
     /\ pc[t] = "idle" /\ ret[t].op = "disconnect" /\ ret[t].status = "ok"
     /\ _client = None /\ Count(c, PRD) = 1

\* C6: connect() tears the prior session down before it opens the new
\* channel: when the new Client is created the session reference has been
\* cleared and ProgramRequestDisconnect has been emitted on every earlier
\* channel; records are emitted only on the newest channel, which is the
\* only one the session reference ever holds.
C6_TeardownBeforeConnect ==
  /\ [](_client \in {None, Len(chans)})
  /\ [][Len(chans') > Len(chans)
          => (_client = None /\ \A c \in Channels : Emitted(c, PRD))]_vars
  /\ [][\A c \in Channels :
          Count(c, PTS)' > Count(c, PTS) => (c = Len(chans) /\ c = _client)]_vars

\* C6 witness: a second connect() while the first session was connected; the
\* first channel got the disconnect request, a record went out on the second.
C6_Witness ==
  /\ Len(chans) = 2
  /\ chans[1].handler = 1 /\ Sent(1, PRD) /\ ~Emitted(1, PTS)
  /\ _client = 2 /\ Sent(2, PTS)

\* C9: the registry holds one Logger per canonical name: an entry names a
\* Logger of that name, no two Loggers share a name, an entry never changes
\* once made, and get_logger(n) returns the entry of the string form of n,
\* whatever happens between the calls.
C9_OneLoggerPerName ==
  /\ [](\A s \in CanonNames :
          _loggers[s] # None => (_loggers[s] \in Loggers /\ heap[_loggers[s]].name = s))
  /\ [](\A i, j \in Loggers : heap[i].name = heap[j].name => i = j)
  /\ [][\A s \in CanonNames : _loggers[s] # None => _loggers'[s] = _loggers[s]]_vars
  /\ [][\A t \in MainThread :
          /\ \A n \in NameInputs : GetLogger(t, n) => frame'[t].name = n.val
          /\ (pc[t] = "gl_return" /\ pc'[t] = "idle")
                => /\ ret'[t].status = "ok"
                   /\ ret'[t].val # None
                   /\ ret'[t].val = _loggers[frame[t].name]]_vars

\* C9 witness: with two Loggers registered and one of them reconfigured, a
\* later get_logger() returned the older one again.
C9_Witness ==
  \E t \in MainThread :
     /\ ret[t].op = "get_logger" /\ ret[t].val = 1
     /\ Len(heap) = 2 /\ heap[1] # Logger(heap[1].name)

\* C2: on no channel does ProgramToServer follow ProgramRequestDisconnect,
\* and a log call interleaved with disconnect() does not fail on the session
\* reference it finds cleared.
C2_NoSendAfterDisconnect ==
  /\ \A c \in Channels : \A i, j \in 1..Len(chans[c].wire) :
        (i < j /\ chans[c].wire[i].sig = PRD /\ chans[c].wire[i].sent)
          => chans[c].wire[j].sig # PTS
  /\ \A t \in AllThreads : ret[t].op = "log" => ret[t].status # "AttributeError"

\* C4: a log call made while no session is active leaves the session as it
\* is and returns normally.
C4_SilentDropWithoutSession ==
  [][\A t \in MainThread :
       (frame[t].op = "log" /\ _client = None /\ pc'[t] # pc[t])
         => /\ UNCHANGED session
            /\ pc'[t] = "idle" => ret'[t].status = "ok"]_vars

\* C5: every log call returns normally.
C5_LogNeverRaises ==
  \A t \in AllThreads : ret[t].op = "log" => ret[t].status = "ok"

\* C7: an enabled logger drops a record below its level without emission or
\* echo and accepts a record at or above it; an accepted record is emitted
\* once when the session is connected.
C7_LevelThreshold ==
  [][\A t \in MainThread :
       /\ \A lg \in Loggers, l \in Levels, a \in LogArgs :
            (Log(t, lg, l, a.objects, a.msg, a.tags) /\ heap[lg].enabled)
              => IF l < heap[lg].level
                   THEN UNCHANGED <<session, streams>> /\ pc'[t] = "idle"
                   ELSE pc'[t] = "log_build"
       /\ (frame[t].op = "log" /\ Connected /\ pc'[t] = "idle")
            => chans' = [chans EXCEPT ![_client].wire =
                           Append(@, [sig |-> PTS, sent |-> TRUE])]]_vars

\* C8: the record's tags are the logger's default tags followed by the
\* call's tags, and the call goes on to emit the record.
C8_TagsConcatenated ==
  [][\A t \in MainThread :
       (pc[t] = "log_build" /\ pc'[t] # "log_build")
         => /\ pc'[t] = "log_check"
            /\ frame'[t].record.tags =
                 heap[frame[t].lg].tags.items \o frame[t].tags.items]_vars

\* C10: while the session is connected, a log call that passes the filter
\* ends with exactly one ProgramToServer on the active channel, carrying the
\* logger's name and the level's name, and emits nothing else.
C10_OneEmissionPerRecord ==
  [][\A t \in MainThread :
       (frame[t].op = "log" /\ Connected /\ pc'[t] # pc[t])
         => IF pc'[t] = "idle"
              THEN /\ ret'[t].status = "ok"
                   /\ chans' = [chans EXCEPT ![_client].wire =
                                  Append(@, [sig |-> PTS, sent |-> TRUE])]
                   /\ frame[t].record.loggerName = heap[frame[t].lg].name
                   /\ frame[t].record.level = _level_to_name(frame[t].level)
              ELSE UNCHANGED chans]_vars

\* C11: leaving the body of `with connect(...)` performs disconnect(). With
\* no session the release emits nothing, changes no session state and
\* returns; with a session it goes to line 64, where a connected channel
\* takes ProgramRequestDisconnect (and nothing else changes), and then line
\* 65 clears the session reference and the release returns. The request is
\* on the channel exactly once.
C11_ReleaseDisconnects ==
  /\ [][\A t \in MainThread :
          /\ (inScope[t] /\ ~inScope'[t])
               => /\ UNCHANGED session
                  /\ IF _client = None
                       THEN pc'[t] = "idle"
                            /\ ret'[t] = [op |-> "exit", status |-> "ok", val |-> None]
                       ELSE pc'[t] = "disc_emit" /\ frame'[t].op = "exit"
          /\ (frame[t].op = "exit" /\ pc[t] = "disc_emit" /\ Connected
                /\ pc'[t] # pc[t])
               => /\ pc'[t] = "disc_clear"
                  /\ _client' = _client
                  /\ chans' = [chans EXCEPT ![_client].wire =
                                 Append(@, [sig |-> PRD, sent |-> TRUE])]
          /\ (frame[t].op = "exit" /\ pc[t] = "disc_clear" /\ pc'[t] # pc[t])
               => /\ _client' = None
                  /\ Count(_client, PRD) = 1
                  /\ UNCHANGED chans
                  /\ pc'[t] = "idle"
                  /\ ret'[t] = [op |-> "exit", status |-> "ok", val |-> None]]_vars
  /\ [](\A t \in MainThread :
          (ret[t].op = "exit" /\ ret[t].status = "ok" /\ pc[t] = "idle")
            => _client = None)

\* C11 witness: a with-body was left while its session was connected; the
\* release has sent the one request on that channel and cleared the reference.
C11_Witness ==
  \E t \in MainThread, c \in Channels :
     /\ ret[t].op = "exit" /\ ret[t].status = "ok" /\ pc[t] = "idle"
     /\ ~inScope[t] /\ _client = None
     /\ chans[c].handler = c /\ Count(c, PRD) = 1 /\ Sent(c, PRD)

\* C12: a log call that passes the filter writes its objects, joined by
\* spaces, once to stdout if the logger echoes to stdout and once to stderr
\* if it echoes to stderr, and nothing to a stream it does not echo to; the
\* write is made with or without a session, before the record is built and
\* before anything is emitted, and no later step of the call writes again.
C12_EchoBeforeEmit ==
  [][\A t \in MainThread :
       /\ \A lg \in Loggers, l \in Levels, a \in LogArgs :
            (Log(t, lg, l, a.objects, a.msg, a.tags) /\ ~Filtered(lg, l))
              => /\ stdout' = IF heap[lg].stdout
                                THEN Append(stdout, Join(a.objects)) ELSE stdout
                 /\ stderr' = IF heap[lg].stderr
                                THEN Append(stderr, Join(a.objects)) ELSE stderr
                 /\ frame'[t].record = NoRecord
                 /\ UNCHANGED session
       /\ (frame[t].op = "log" /\ pc'[t] # pc[t]) => UNCHANGED streams]_vars

\* C12 witness: a logger told to echo to stdout has logged two objects while
\* a session was connected: one line on stdout, none on stderr, and the
\* record sent.
C12_Witness ==
  /\ stdout = << "x y" >> /\ stderr = <<>>
  /\ \E c \in Channels : Sent(c, PTS)
  /\ \E t \in MainThread : ret[t].op = "log" /\ ret[t].status = "ok"

\* C14: a log call on a disabled logger, whatever its level, or below the
\* logger's level, returns at once: nothing is written to stdout or stderr,
\* nothing is emitted, and the session reference, the channels, the
\* registry and every Logger are as before.
C14_FilteredNoEffect ==
  [][\A t \in MainThread : \A lg \in Loggers, l \in Levels, a \in LogArgs :
       (Log(t, lg, l, a.objects, a.msg, a.tags)
          /\ (~heap[lg].enabled \/ l < heap[lg].level))
         => /\ UNCHANGED <<session, registry, streams, inScope, pc, frame>>
            /\ ret'[t] = [op |-> "log", status |-> "ok", val |-> None]]_vars

\* C14 witness: a disabled logger was asked to log while a session was
\* connected; the call returned and no channel carries a record.
C14_Witness ==
  \E t \in MainThread, lg \in Loggers :
     /\ ~heap[lg].enabled
     /\ nlogs = 1 /\ ret[t].op = "log" /\ ret[t].status = "ok" /\ pc[t] = "idle"
     /\ Connected
     /\ \A c \in Channels : ~Emitted(c, PTS)
     /\ stdout = <<>> /\ stderr = <<>>

\* C13: configuration errors fail at the configuring call: no Logger ever
\* holds a level other than DEBUG, INFO, WARN, ERROR, no Logger has the
\* empty name and the registry has no entry for it.
C13_ConfigFailsFast ==
  /\ \A lg \in Loggers : heap[lg].level \in Levels /\ heap[lg].name # ""
  /\ _loggers[""] = None

\* C15: whatever the session was when connect() was called (none, connected,
\* a request awaiting its approval, a reference to a refused or dropped
\* channel), the call clears the old reference before it creates the new
\* Client and, unless the transport refuses the new connection, returns
\* with the session reference on the new channel, its handler registered.
C15_ConnectFromAnyState ==
  [][\A t \in MainThread :
       /\ (frame[t].op = "connect" /\ pc[t] = "new_client" /\ pc'[t] # pc[t])
            => _client = None
       /\ (frame[t].op = "connect" /\ pc[t] # "idle" /\ pc'[t] = "idle")
            => \/ /\ ret'[t].status = "ok"
                  /\ _client' = Len(chans')
                  /\ chans'[_client'].handler = _client'
               \/ /\ ret'[t].status = "ConnectionError"
                  /\ chans'[Len(chans')].state = "refused"]_vars

\* C16: with a collector that answers every ProgramRequestDisconnect and a
\* transport that delivers the answer, every channel the request was sent on
\* is eventually closed; the approval arriving on a channel closes that
\* channel, whatever the session is by then, and no other channel.
C16_HandshakeCompletes ==
  /\ \A c \in 1..MaxChan :
        (c \in Channels /\ Sent(c, PRD))
          ~> (c \in Channels /\ chans[c].state = "closed")
  /\ [][\A c \in Channels :
          (~chans[c].acked /\ chans'[c].acked)
            => chans' = [chans EXCEPT ![c].acked = TRUE, ![c].state = "closed"]]_vars

\* C16 witness: the first channel was closed on its approval while (or
\* before) a second session is connected, and the second channel is up.
C16_Witness ==
  /\ Len(chans) = 2
  /\ chans[1].state = "closed" /\ chans[1].acked
  /\ _client = 2 /\ chans[2].state = "connected" /\ ~Emitted(2, PRD)

\* C17: the view of a record is assemble(object) for a call with one object
\* and assemble(Flow(objects)), in call order, for a call with none or with
\* several; the record built is the same whatever msg the call was given,
\* and it is the record of the call that the emission of line 173 sends.
C17_ViewFromObjects ==
  [][\A t \in MainThread :
       /\ (pc[t] = "log_build" /\ pc'[t] = "log_check")
            => /\ frame'[t].record.view =
                    [kind |-> "view",
                     root |-> IF Len(frame[t].objects) = 1
                                THEN [kind |-> "object", items |-> frame[t].objects]
                                ELSE [kind |-> "flow", items |-> frame[t].objects]]
               /\ frame'[t].record =
                    [frame[t].record EXCEPT
                       !.view = frame'[t].record.view,
                       !.loggerName = heap[frame[t].lg].name,
                       !.level = _level_to_name(frame[t].level),
                       !.tags = heap[frame[t].lg].tags.items \o frame[t].tags.items]
               /\ frame[t].record = NoRecord
       /\ (pc[t] \in {"log_check", "log_emit"} /\ pc'[t] # "idle")
            => frame'[t].record = frame[t].record]_vars

\* C17 witness: a call with one object and a msg has built its record, whose
\* view is that of the object alone, and is about to emit it on the
\* connected session.
C17_Witness ==
  \E t \in MainThread :
     /\ pc[t] = "log_emit" /\ Connected
     /\ frame[t].msg = "m" /\ frame[t].objects = << "x" >>
     /\ frame[t].record.view = assemble(Single("x"))

\* C18: between calls, a session reference that is not None names a Client
\* whose connection was established (not one that was never connected or
\* was refused) and on which ProgramRequestDisconnect has not been emitted.
C18_ReferenceIsConnected ==
  (_client # None /\ \A t \in MainThread : pc[t] = "idle")
    => /\ chans[_client].state \notin {"new", "refused"}
       /\ ~Emitted(_client, PRD)

\* C19: however connect() and disconnect() calls of two threads interleave,
\* no channel whose connection was established gets
\* ProgramRequestDisconnect more than once, and once the calls have returned
\* every such channel that is not the session has got it.
C19_RequestExactlyOnce ==
  /\ \A c \in Channels :
        chans[c].state \notin {"new", "refused"} => Count(c, PRD) <= 1
  /\ (\A t \in AllThreads : pc[t] = "idle")
       => \A c \in Channels :
            (c # _client /\ chans[c].state \notin {"new", "refused"})
              => Count(c, PRD) = 1

\* C20: threads that call get_logger with the same name, concurrently or
\* not, get the same Logger: two handles returned for one name are one
\* object, and that object is the registry's entry for the name.
C20_SameLoggerForAllThreads ==
  \A t1, t2 \in AllThreads :
     (ret[t1].op = "get_logger" /\ ret[t2].op = "get_logger"
        /\ heap[ret[t1].val].name = heap[ret[t2].val].name)
       => /\ ret[t1].val = ret[t2].val
          /\ _loggers[heap[ret[t1].val].name] = ret[t1].val

====
